---- MODULE Spec2Model ----
(***************************************************************************)
(* Model of eventBetweenness (dynamics.py): the two-sweep computation of   *)
(* the event betweenness of a temporal network, as a Python generator.     *)
(*                                                                         *)
(* An event is a tuple <<t, i, j>>.  A dictionary is a function whose      *)
(* DOMAIN is its key set.  The deque L_diff is a sequence, appended and    *)
(* popped at its right end.  The generator's frame is the state; pc is the *)
(* place the frame is suspended or running at.                             *)
(***************************************************************************)
EXTENDS Integers, Sequences, FiniteSets, TLC

\* ------------------------------------------------------------- bounds
\* Longest event sequence of the general specification.
MaxEvents == 3
\* Longest event sequence of the specification with a caller that keeps
\* pulling (SpecConsumed).
MaxConsumedEvents == 2
\* Longest event sequence of the well-formed specification (SpecPaths).
MaxPathEvents == 4
\* Longest forward and longest reverse sequence of the specification with a
\* reverse sequence that is not the mirror (SpecMismatch).
MaxMismatchEvents == 2
\* Longest event sequence of the runs compared across time values (SpecTimes).
MaxTimedEvents == 3
\* Longest event sequence of each of two invocations pulled in turn (SpecTwo).
MaxTwoEvents == 2

Nodes == {"A", "B", "C"}

\* The time of the k-th event is step * (k - 1): decreasing (not sorted),
\* all tied, or strictly increasing.
TimeSteps == {-1, 0, 1}

\* ------------------------------------------------------------- helpers
EmptyMap == [n \in {} |-> 0]

\* The dictionary an invocation creates ({}); stale is the dictionary of the
\* same name of another invocation, which the new one does not inherit.
FreshDict_Reused(stale) == stale

FreshDict(stale) == EmptyMap

\* The deque an invocation creates (deque()).
FreshDeque(stale) == <<>>

\* reversed(s)
Reverse_SkipsFirst(s) == [k \in 1 .. Len(s) - 1 |-> s[Len(s) + 1 - k]]

Reverse(s) == [k \in 1 .. Len(s) |-> s[Len(s) + 1 - k]]

\* The exact mirror of an event sequence, as a caller supplies it.
Mirror(s) == [k \in 1 .. Len(s) |-> s[Len(s) + 1 - k]]

SeqsUpTo(S, n) == UNION {[1 .. m -> S] : m \in 0 .. n}

\* dict.setdefault(k, v): insert v under k unless k is a key already.
setdefault(d, k, v) == IF k \in DOMAIN d THEN d ELSE d @@ (k :> v)

\* ------------------------------------------------------------- Phase I
\* The for loop of Phase I ends when the reverse iterator is exhausted.
ReverseExhausted_OneEarly(it) == Len(it) <= 1

ReverseExhausted(it) == it = <<>>

\* The leaving count of both endpoints after an event: the paths that left
\* either endpoint already, and the event itself.
LeavingCount_NoNewPath(li, lj) == li + lj

LeavingCount(li, lj) == li + lj + 1

\* The correction pair pushed for an event.
Correction_Swapped(li, lj, c_new) == <<c_new - lj, c_new - li>>

Correction_Whole(li, lj, c_new) == <<c_new, c_new>>

Correction(li, lj, c_new) == <<c_new - li, c_new - lj>>

\* One iteration of the Phase I loop on event e.
ReverseUpdate_TimeTested(e, L, D) ==
    LET i == e[2]
        j == e[3]
        L1 == setdefault(L, i, 0)
        li == L1[i]
        L2 == setdefault(L1, j, 0)
        lj == L2[j]
        c_new == IF e[1] = 0 THEN li + lj ELSE LeavingCount(li, lj)
        L3 == [L2 EXCEPT ![i] = c_new]
    IN  [L_count |-> [L3 EXCEPT ![j] = c_new],
         L_diff |-> Append(D, Correction(li, lj, c_new))]

ReverseUpdate(e, L, D) ==
    LET i == e[2]
        j == e[3]
        L1 == setdefault(L, i, 0)
        li == L1[i]
        L2 == setdefault(L1, j, 0)
        lj == L2[j]
        c_new == LeavingCount(li, lj)
        L3 == [L2 EXCEPT ![i] = c_new]
    IN  [L_count |-> [L3 EXCEPT ![j] = c_new],
         L_diff |-> Append(D, Correction(li, lj, c_new))]

\* ------------------------------------------------------------- Phase II
\* Node betweenness credited to a node the current event arrives at:
\* a_other paths arrive at the other endpoint, l_self paths leave this one.
NodeCredit_NoStart(a_other, l_self) == a_other * l_self

NodeCredit(a_other, l_self) == a_other * l_self + l_self

\* The additional credit of include_path_ends.
EndsCredit_SignSlip(a_other, l_other) == a_other - l_other

EndsCredit(a_other, l_other) == a_other + l_other

\* The nodeBetweenness update of one event.
NodeUpdate_OnlyFirst(nb, i, j, ai, aj, li, lj, ipe) ==
    LET nb1 == setdefault(nb, i, 0)
        nb_i == nb1[i] + NodeCredit(aj, li)
                + (IF ipe THEN EndsCredit(aj, lj) ELSE 0)
    IN  [nb1 EXCEPT ![i] = nb_i]

NodeUpdate_Overwrites(nb, i, j, ai, aj, li, lj, ipe) ==
    LET nb2 == setdefault(setdefault(nb, i, 0), j, 0)
        nb_i == NodeCredit(aj, li) + (IF ipe THEN EndsCredit(aj, lj) ELSE 0)
        nb_j == NodeCredit(ai, lj) + (IF ipe THEN EndsCredit(ai, li) ELSE 0)
        nb3 == [nb2 EXCEPT ![i] = nb_i]
    IN  [nb3 EXCEPT ![j] = nb_j]

NodeUpdate(nb, i, j, ai, aj, li, lj, ipe) ==
    LET nb1 == setdefault(nb, i, 0)
        nb_i0 == nb1[i] + NodeCredit(aj, li)
        nb2 == setdefault(nb1, j, 0)
        nb_j0 == nb2[j] + NodeCredit(ai, lj)
        nb_i == IF ipe THEN nb_i0 + EndsCredit(aj, lj) ELSE nb_i0
        nb_j == IF ipe THEN nb_j0 + EndsCredit(ai, li) ELSE nb_j0
        nb3 == [nb2 EXCEPT ![i] = nb_i]
    IN  [nb3 EXCEPT ![j] = nb_j]

\* The event betweenness yielded for an event.
EventValue_PlusOne(ai, aj, li, lj) == ai * lj + aj * li + ai + aj + li + lj + 1

EventValue_OneSided(ai, aj, li, lj) == ai * lj + ai + aj + li + lj

EventValue(ai, aj, li, lj) == ai * lj + aj * li + ai + aj + li + lj

\* The arrival counts after the current event.
ArrivalUpdate_NoNewPath(A, i, j, ai, aj) ==
    LET A1 == [A EXCEPT ![i] = ai + aj] IN [A1 EXCEPT ![j] = ai + aj]

ArrivalUpdate(A, i, j, ai, aj) ==
    LET c_new == ai + aj + 1
        A1 == [A EXCEPT ![i] = c_new]
    IN  [A1 EXCEPT ![j] = c_new]

\* A frame of Phase II that stopped with an exception.
Faulted(kind, A, L, D, nb) ==
    [fault |-> kind, A_count |-> A, L_count |-> L, L_diff |-> D,
     nodeBetweenness |-> nb, a_i |-> 0, a_j |-> 0, l_i |-> 0, l_j |-> 0,
     value |-> 0]

\* L_diff.pop(): the entry appended last, and the deque without it.
Pop_Left(D) == [item |-> D[1], rest |-> SubSeq(D, 2, Len(D))]

Pop_Peek(D) == [item |-> D[Len(D)], rest |-> D]

Pop(D) == [item |-> D[Len(D)], rest |-> SubSeq(D, 1, Len(D) - 1)]

\* One iteration of the Phase II loop on event e, up to its yield.
\* L_diff.pop() on an empty deque raises IndexError; L_count[n] on a node the
\* reverse sequence never named raises KeyError.
ForwardBody(e, A, L, D, nb, nbs, ipe) ==
    LET i == e[2]
        j == e[3]
        A1 == setdefault(setdefault(A, i, 0), j, 0)
        ai == A1[i]
        aj == A1[j]
    IN  IF D = <<>> THEN Faulted("IndexError", A1, L, D, nb)
        ELSE
        LET upd == Pop(D).item
            D1 == Pop(D).rest
        IN  IF i \notin DOMAIN L THEN Faulted("KeyError", A1, L, D1, nb)
            ELSE
            LET L1 == [L EXCEPT ![i] = @ - upd[1]]
            IN  IF j \notin DOMAIN L1 THEN Faulted("KeyError", A1, L1, D1, nb)
                ELSE
                LET L2 == [L1 EXCEPT ![j] = @ - upd[2]]
                    li == L2[i]
                    lj == L2[j]
                IN  [fault |-> "", A_count |-> A1, L_count |-> L2,
                     L_diff |-> D1,
                     nodeBetweenness |->
                         IF nbs THEN NodeUpdate(nb, i, j, ai, aj, li, lj, ipe)
                         ELSE nb,
                     a_i |-> ai, a_j |-> aj, l_i |-> li, l_j |-> lj,
                     value |-> EventValue(ai, aj, li, lj)]

\* ------------------------------------------------------------- whole runs
\* The function consumed to its end, as a fold of the loop bodies above.
RECURSIVE ReverseSweep(_, _, _)
ReverseSweep(it, L, D) ==
    IF ReverseExhausted(it) THEN [L_count |-> L, L_diff |-> D]
    ELSE LET r == ReverseUpdate(Head(it), L, D)
         IN  ReverseSweep(Tail(it), r.L_count, r.L_diff)

RECURSIVE ForwardSweep(_, _, _, _, _, _, _, _)
ForwardSweep(it, A, L, D, nb, o, nbs, ipe) ==
    IF it = <<>> THEN [out |-> o, nodeBetweenness |-> nb, fault |-> ""]
    ELSE LET e == Head(it)
             r == ForwardBody(e, A, L, D, nb, nbs, ipe)
         IN  IF r.fault # ""
             THEN [out |-> o, nodeBetweenness |-> nb, fault |-> r.fault]
             ELSE ForwardSweep(Tail(it),
                      ArrivalUpdate(r.A_count, e[2], e[3], r.a_i, r.a_j),
                      r.L_count, r.L_diff, r.nodeBetweenness,
                      Append(o, <<e[1], r.value>>), nbs, ipe)

eventBetweenness(ev, rv_given, rv, nbs, ipe) ==
    LET it == IF rv_given THEN rv ELSE Reverse(ev)
        p1 == ReverseSweep(it, EmptyMap, <<>>)
    IN  ForwardSweep(ev, EmptyMap, p1.L_count, p1.L_diff, EmptyMap, <<>>,
                     nbs, ipe)

\* ------------------------------------------------------------- state
VARIABLES
    events,             \* argument: the event sequence
    rev_supplied,       \* events_reversed is not None
    events_reversed,    \* argument: the reverse sequence (when supplied)
    nb_supplied,        \* nodeBetweenness is not None
    include_path_ends,  \* argument
    nodeBetweenness,    \* the caller's dictionary
    pc,                 \* "created", "phase1", "phase2", "yielded", "done", "fault"
    rev_it,             \* what the Phase I iterator has left
    fwd_it,             \* what the Phase II iterator has left
    cur,                \* locals t, i, j
    L_count, L_diff, A_count,
    a_i, a_j, l_i, l_j, \* locals of Phase II
    out,                \* the pairs yielded so far
    pushed, popped,     \* history: appends to and pops from L_diff
    counts,             \* history: <<a_i, a_j, l_i, l_j>> of each event yielded
    second              \* the frame of a second invocation

vars == <<events, rev_supplied, events_reversed, nb_supplied,
          include_path_ends, nodeBetweenness, pc, rev_it, fwd_it, cur,
          L_count, L_diff, A_count, a_i, a_j, l_i, l_j, out, pushed, popped,
          counts, second>>

args == <<events, rev_supplied, events_reversed, nb_supplied,
          include_path_ends>>

\* The frame of an invocation on events ev (no reverse sequence, no
\* dictionary) that has not run yet.
CreatedFrame(ev) ==
    [pc |-> "created", events |-> ev, rev_it |-> <<>>, fwd_it |-> <<>>,
     cur |-> <<>>, L_count |-> EmptyMap, L_diff |-> <<>>,
     A_count |-> EmptyMap, a_i |-> 0, a_j |-> 0, out |-> <<>>]

\* The frame of a generator that has not run yet.
Created ==
    /\ pc = "created"
    /\ nodeBetweenness = EmptyMap
    /\ rev_it = <<>> /\ fwd_it = <<>> /\ cur = <<>>
    /\ L_count = EmptyMap /\ L_diff = <<>> /\ A_count = EmptyMap
    /\ a_i = 0 /\ a_j = 0 /\ l_i = 0 /\ l_j = 0
    /\ out = <<>> /\ pushed = 0 /\ popped = 0 /\ counts = <<>>

\* The events of a sequence of endpoint pairs.
TimedEvents(pairs, step) ==
    [k \in 1 .. Len(pairs) |-> <<step * (k - 1), pairs[k][1], pairs[k][2]>>]

\* Any events, self-loops and unsorted times included; the reverse sequence
\* omitted or the exact mirror.
InitUpTo(n) ==
    /\ \E pairs \in SeqsUpTo(Nodes \X Nodes, n), step \in TimeSteps :
           events = TimedEvents(pairs, step)
    /\ rev_supplied \in BOOLEAN
    /\ events_reversed = IF rev_supplied THEN Mirror(events) ELSE <<>>
    /\ nb_supplied \in BOOLEAN
    /\ include_path_ends \in BOOLEAN
    /\ second = CreatedFrame(<<>>)
    /\ Created

Init == InitUpTo(MaxEvents)

InitConsumed == InitUpTo(MaxConsumedEvents)

\* ------------------------------------------------------------- actions
\* First next(): the preprocessing and the start of Phase I.
Preprocess ==
    /\ pc = "created"
    /\ rev_it' = IF rev_supplied THEN events_reversed ELSE Reverse(events)
    /\ L_count' = FreshDict(second.L_count)
    /\ L_diff' = FreshDeque(second.L_diff)
    /\ pc' = "phase1"
    /\ UNCHANGED <<args, second, nodeBetweenness, fwd_it, cur, A_count, a_i, a_j,
                   l_i, l_j, out, pushed, popped, counts>>

\* One iteration of the Phase I loop.
ReverseStep ==
    /\ pc = "phase1"
    /\ ~ReverseExhausted(rev_it)
    /\ LET e == Head(rev_it)
           r == ReverseUpdate(e, L_count, L_diff)
       IN  /\ cur' = e
           /\ L_count' = r.L_count
           /\ L_diff' = r.L_diff
    /\ rev_it' = Tail(rev_it)
    /\ pushed' = pushed + 1
    /\ UNCHANGED <<args, second, nodeBetweenness, pc, fwd_it, A_count, a_i, a_j,
                   l_i, l_j, out, popped, counts>>

\* The Phase I loop ends; Phase II starts with an empty A_count.
BeginForward ==
    /\ pc = "phase1"
    /\ ReverseExhausted(rev_it)
    /\ A_count' = FreshDict(second.A_count)
    /\ fwd_it' = events
    /\ pc' = "phase2"
    /\ UNCHANGED <<args, second, nodeBetweenness, rev_it, cur, L_count, L_diff,
                   a_i, a_j, l_i, l_j, out, pushed, popped, counts>>

\* One iteration of the Phase II loop up to its yield (or its exception).
ForwardStep ==
    /\ pc = "phase2"
    /\ fwd_it # <<>>
    /\ LET e == Head(fwd_it)
           r == ForwardBody(e, A_count, L_count, L_diff, nodeBetweenness,
                            nb_supplied, include_path_ends)
       IN  /\ cur' = e
           /\ A_count' = r.A_count
           /\ L_count' = r.L_count
           /\ L_diff' = r.L_diff
           /\ popped' = popped + (Len(L_diff) - Len(r.L_diff))
           /\ nodeBetweenness' = r.nodeBetweenness
           /\ IF r.fault # ""
              THEN /\ pc' = "fault"
                   /\ UNCHANGED <<a_i, a_j, l_i, l_j, out, counts>>
              ELSE /\ pc' = "yielded"
                   /\ a_i' = r.a_i /\ a_j' = r.a_j
                   /\ l_i' = r.l_i /\ l_j' = r.l_j
                   /\ out' = Append(out, <<e[1], r.value>>)
                   /\ counts' = Append(counts, <<r.a_i, r.a_j, r.l_i, r.l_j>>)
    /\ fwd_it' = Tail(fwd_it)
    /\ UNCHANGED <<args, second, rev_it, pushed>>

\* next() on a suspended generator: the statements after the yield.
Resume ==
    /\ pc = "yielded"
    /\ A_count' = ArrivalUpdate(A_count, cur[2], cur[3], a_i, a_j)
    /\ pc' = "phase2"
    /\ UNCHANGED <<args, second, nodeBetweenness, rev_it, fwd_it, cur, L_count,
                   L_diff, a_i, a_j, l_i, l_j, out, pushed, popped, counts>>

\* The Phase II loop ends: StopIteration.
Finish ==
    /\ pc = "phase2"
    /\ fwd_it = <<>>
    /\ pc' = "done"
    /\ UNCHANGED <<args, second, nodeBetweenness, rev_it, fwd_it, cur, L_count,
                   L_diff, A_count, a_i, a_j, l_i, l_j, out, pushed, popped,
                   counts>>

Next ==
    \/ Preprocess
    \/ ReverseStep
    \/ BeginForward
    \/ ForwardStep
    \/ Resume
    \/ Finish

Spec == Init /\ [][Next]_vars

\* The caller keeps pulling until the sequence ends.
SpecConsumed == InitConsumed /\ [][Next]_vars /\ WF_vars(Next)

\* Well-formed input: distinct endpoints per event, times either strictly
\* increasing (step = 1) or all tied (step = 0), no reverse sequence
\* supplied, a dictionary supplied.
DistinctPairs == {p \in Nodes \X Nodes : p[1] # p[2]}

InitPaths ==
    /\ \E pairs \in SeqsUpTo(DistinctPairs, MaxPathEvents), step \in 0 .. 1 :
           events = TimedEvents(pairs, step)
    /\ rev_supplied = FALSE
    /\ events_reversed = <<>>
    /\ nb_supplied = TRUE
    /\ include_path_ends \in BOOLEAN
    /\ second = CreatedFrame(<<>>)
    /\ Created

SpecPaths == InitPaths /\ [][Next]_vars

\* Events with times all distinct and sorted, all tied, or decreasing, the
\* caller's dictionary supplied.
InitTimes ==
    /\ \E pairs \in SeqsUpTo(Nodes \X Nodes, MaxTimedEvents),
          step \in TimeSteps :
           events = TimedEvents(pairs, step)
    /\ rev_supplied = FALSE
    /\ events_reversed = <<>>
    /\ nb_supplied = TRUE
    /\ include_path_ends \in BOOLEAN
    /\ second = CreatedFrame(<<>>)
    /\ Created

SpecTimes == InitTimes /\ [][Next]_vars

\* ------------------------------------------------------------- two invocations
\* One step of a frame f: the six steps above on a frame held in a record.
\* stale holds the L_count, L_diff and A_count of the other invocation.
FrameStep(f, stale) ==
    CASE f.pc = "created" ->
           [f EXCEPT !.pc = "phase1",
                     !.rev_it = Reverse(f.events),
                     !.L_count = FreshDict(stale.L_count),
                     !.L_diff = FreshDeque(stale.L_diff)]
      [] f.pc = "phase1" /\ ~ReverseExhausted(f.rev_it) ->
           LET r == ReverseUpdate(Head(f.rev_it), f.L_count, f.L_diff)
           IN  [f EXCEPT !.cur = Head(f.rev_it),
                         !.L_count = r.L_count,
                         !.L_diff = r.L_diff,
                         !.rev_it = Tail(f.rev_it)]
      [] f.pc = "phase1" /\ ReverseExhausted(f.rev_it) ->
           [f EXCEPT !.pc = "phase2",
                     !.A_count = FreshDict(stale.A_count),
                     !.fwd_it = f.events]
      [] f.pc = "phase2" /\ f.fwd_it # <<>> ->
           LET e == Head(f.fwd_it)
               r == ForwardBody(e, f.A_count, f.L_count, f.L_diff, EmptyMap,
                                FALSE, FALSE)
           IN  IF r.fault # ""
               THEN [f EXCEPT !.pc = "fault", !.cur = e,
                              !.fwd_it = Tail(f.fwd_it),
                              !.A_count = r.A_count,
                              !.L_count = r.L_count,
                              !.L_diff = r.L_diff]
               ELSE [f EXCEPT !.pc = "yielded", !.cur = e,
                              !.fwd_it = Tail(f.fwd_it),
                              !.A_count = r.A_count,
                              !.L_count = r.L_count,
                              !.L_diff = r.L_diff,
                              !.a_i = r.a_i, !.a_j = r.a_j,
                              !.out = Append(f.out, <<e[1], r.value>>)]
      [] f.pc = "yielded" ->
           [f EXCEPT !.pc = "phase2",
                     !.A_count = ArrivalUpdate(f.A_count, f.cur[2], f.cur[3],
                                               f.a_i, f.a_j)]
      [] f.pc = "phase2" /\ f.fwd_it = <<>> ->
           [f EXCEPT !.pc = "done"]

\* The second invocation takes a step, at any point of the first one's run.
SecondStep ==
    /\ second.pc \notin {"done", "fault"}
    /\ second' = FrameStep(second, [L_count |-> L_count, L_diff |-> L_diff,
                                     A_count |-> A_count])
    /\ UNCHANGED <<args, nodeBetweenness, pc, rev_it, fwd_it, cur, L_count,
                   L_diff, A_count, a_i, a_j, l_i, l_j, out, pushed, popped,
                   counts>>

SecondPairs == {<<"A", "B">>, <<"B", "C">>}

InitTwo ==
    /\ \E pairs \in SeqsUpTo(DistinctPairs, MaxTwoEvents) :
           events = TimedEvents(pairs, 1)
    /\ rev_supplied = FALSE
    /\ events_reversed = <<>>
    /\ nb_supplied = FALSE
    /\ include_path_ends = FALSE
    /\ \E pairs \in SeqsUpTo(SecondPairs, MaxTwoEvents) :
           second = CreatedFrame(TimedEvents(pairs, 1))
    /\ Created

NextTwo == Next \/ SecondStep

SpecTwo == InitTwo /\ [][NextTwo]_vars

\* A reverse sequence supplied by the caller that is not the mirror of the
\* events: another length, other endpoints or another order.
InitMismatch ==
    /\ \E pairs \in SeqsUpTo(DistinctPairs, MaxMismatchEvents),
          rpairs \in SeqsUpTo(DistinctPairs, MaxMismatchEvents) :
           /\ events = TimedEvents(pairs, 1)
           /\ events_reversed = Mirror(TimedEvents(Mirror(rpairs), 1))
    /\ events_reversed # Mirror(events)
    /\ rev_supplied = TRUE
    /\ nb_supplied = TRUE
    /\ include_path_ends = FALSE
    /\ second = CreatedFrame(<<>>)
    /\ Created

SpecMismatch == InitMismatch /\ [][Next]_vars

\* ------------------------------------------------------------- vocabulary
DistinctEndpoints(ev) == \A k \in 1 .. Len(ev) : ev[k][2] # ev[k][3]

TimeSorted(ev) == \A k \in 1 .. Len(ev) - 1 : ev[k][1] <= ev[k + 1][1]

Endpoints(ev) == {ev[k][2] : k \in 1 .. Len(ev)} \cup {ev[k][3] : k \in 1 .. Len(ev)}

SwapAll(ev) == [k \in 1 .. Len(ev) |-> <<ev[k][1], ev[k][3], ev[k][2]>>]

Values(o) == [k \in 1 .. Len(o) |-> o[k][2]]

\* A node's total in a dictionary (0 for a node that is no key).
Total(nb, n) == IF n \in DOMAIN nb THEN nb[n] ELSE 0

RECURSIVE SumTotals(_, _)
SumTotals(nb, S) ==
    IF S = {} THEN 0
    ELSE LET n == CHOOSE x \in S : TRUE
         IN  Total(nb, n) + SumTotals(nb, S \ {n})

RECURSIVE SumSeq(_)
SumSeq(s) == IF s = <<>> THEN 0 ELSE Head(s) + SumSeq(Tail(s))

\* Brute force: the time-respecting paths of an event sequence.  A hop
\* <<k, u, v>> crosses event k from u to v; a path is a chain of hops of
\* increasing k in which each hop departs from where the previous one arrived.
Hops(ev) ==
    {<<k, ev[k][2], ev[k][3]>> : k \in 1 .. Len(ev)}
        \cup {<<k, ev[k][3], ev[k][2]>> : k \in 1 .. Len(ev)}

Extend(P, ev) ==
    {Append(ph[1], ph[2]) :
        ph \in {x \in P \X Hops(ev) :
                   /\ x[2][1] > x[1][Len(x[1])][1]
                   /\ x[2][2] = x[1][Len(x[1])][3]}}

RECURSIVE PathsOfLen(_, _)
PathsOfLen(ev, m) ==
    IF m = 1 THEN {<<h>> : h \in Hops(ev)} ELSE Extend(PathsOfLen(ev, m - 1), ev)

Paths(ev) == UNION {PathsOfLen(ev, m) : m \in 1 .. Len(ev)}

\* The paths that include event k.
Through(P, k) == {p \in P : \E x \in 1 .. Len(p) : p[x][1] = k}

\* The paths on which node n is arrived at and left again.
Interior(P, n) == {p \in P : \E x \in 1 .. Len(p) - 1 : p[x][3] = n}

\* ------------------------------------------------------------- claims
ChainAB_BC == << <<0, "A", "B">>, <<1, "B", "C">> >>

\* C1: consumed to its end, the generator yields exactly one pair per input
\* event and then stops, and the k-th pair carries the k-th event's time,
\* repeated triples included.
C1_OrderPreserved ==
    /\ [](/\ Len(out) <= Len(events)
          /\ \A k \in 1 .. Len(out) : out[k][1] = events[k][1]
          /\ pc = "done" => Len(out) = Len(events))
    /\ <>(pc = "done" /\ Len(out) = Len(events))

C1_Witness ==
    /\ pc = "done"
    /\ Len(events) = 2
    /\ events[1] = events[2]
    /\ Len(out) = 2
    /\ out[2][1] = events[2][1]

\* C2 (as claimed): one event between two distinct nodes yields (t, 1).
C2_SingleEventIsOne ==
    (pc = "done" /\ Len(events) = 1 /\ events[1][2] # events[1][3])
        => out = << <<events[1][1], 1>> >>

\* C2 (amended): one event between two distinct nodes yields (t, 0).
C2_SingleEventIsZero ==
    (pc = "done" /\ Len(events) = 1 /\ events[1][2] # events[1][3])
        => out = << <<events[1][1], 0>> >>

C2_Witness ==
    /\ pc = "done"
    /\ events = << <<0, "A", "B">> >>
    /\ Len(out) = 1

\* C3 (as claimed): the chain (0,A,B), (1,B,C) yields betweenness 2 and 2.
C3_ChainIsTwoTwo ==
    (pc = "done" /\ events = ChainAB_BC) => Values(out) = <<2, 2>>

\* C3 (amended): the chain (0,A,B), (1,B,C) yields betweenness 1 and 1.
C3_ChainIsOneOne ==
    (pc = "done" /\ events = ChainAB_BC) => out = << <<0, 1>>, <<1, 1>> >>

C3_Witness ==
    /\ pc = "done"
    /\ events = ChainAB_BC
    /\ Len(out) = 2

\* C4 (as claimed): the value emitted for an event is the number of
\* time-respecting paths of one or more events that include the event.
C4_CountsAllPaths ==
    (pc = "done" /\ DistinctEndpoints(events) /\ TimeSorted(events)) =>
        LET P == Paths(events)
        IN  \A k \in 1 .. Len(out) : out[k][2] = Cardinality(Through(P, k))

\* C4 (amended): the value emitted for an event is the number of
\* time-respecting paths of two or more events that include the event.
C4_CountsLongerPaths ==
    (pc = "done" /\ DistinctEndpoints(events) /\ TimeSorted(events)) =>
        LET P == {p \in Paths(events) : Len(p) >= 2}
        IN  \A k \in 1 .. Len(out) : out[k][2] = Cardinality(Through(P, k))

C4_Witness ==
    /\ pc = "done"
    /\ Len(events) = 3
    /\ DistinctEndpoints(events)
    /\ events[1][1] < events[2][1]
    /\ Cardinality(Endpoints(events)) = 3
    /\ out[2][2] >= 3

\* C5: without path ends, a node's total is the number of time-respecting
\* paths that have the node as an interior hop, each path counted once.
C5_InteriorPathsOnce ==
    (pc = "done" /\ nb_supplied /\ ~include_path_ends
        /\ DistinctEndpoints(events)) =>
        LET P == Paths(events)
        IN  \A n \in Nodes :
                Total(nodeBetweenness, n) = Cardinality(Interior(P, n))

\* C6 (as claimed): without path ends, the node totals sum to the sum over
\* the events of a_i*l_j + a_j*l_i.
C6_SumOfThroughTerms ==
    (pc = "done" /\ nb_supplied /\ ~include_path_ends
        /\ DistinctEndpoints(events)) =>
        SumTotals(nodeBetweenness, DOMAIN nodeBetweenness)
            = SumSeq([k \in 1 .. Len(counts) |->
                  counts[k][1] * counts[k][4] + counts[k][2] * counts[k][3]])

\* C6 (amended): for events with distinct endpoints and without path ends,
\* the node totals sum to the sum over the events of
\* a_i*l_j + a_j*l_i + l_i + l_j.
C6_SumOfThroughAndLeavingTerms ==
    (pc = "done" /\ nb_supplied /\ ~include_path_ends
        /\ DistinctEndpoints(events)) =>
        /\ Len(counts) = Len(events)
        /\ SumTotals(nodeBetweenness, DOMAIN nodeBetweenness)
            = SumSeq([k \in 1 .. Len(counts) |->
                  counts[k][1] * counts[k][4] + counts[k][2] * counts[k][3]
                  + counts[k][3] + counts[k][4]])

C6_Witness ==
    /\ pc = "done"
    /\ nb_supplied /\ ~include_path_ends
    /\ Len(events) = 3
    /\ DistinctEndpoints(events)
    /\ \E k \in 1 .. 3 : counts[k][1] * counts[k][4] > 0
    /\ SumTotals(nodeBetweenness, DOMAIN nodeBetweenness) >= 4

\* C7: swapping the endpoints of every event, in the forward and in the
\* reverse sequence, changes no emitted value and no node total, with or
\* without path ends.
C7_EndpointSwap ==
    pc = "done" =>
        LET r == eventBetweenness(SwapAll(events), rev_supplied,
                     SwapAll(events_reversed), nb_supplied, include_path_ends)
        IN  /\ r.fault = ""
            /\ r.out = out
            /\ \A n \in Nodes :
                   Total(r.nodeBetweenness, n) = Total(nodeBetweenness, n)

C7_Witness ==
    /\ pc = "done"
    /\ nb_supplied
    /\ Len(events) = 3
    /\ DistinctEndpoints(events)
    /\ SwapAll(events) # events
    /\ \E k \in 1 .. 3 : counts[k][2] * counts[k][3] > 0
    /\ \E n \in Nodes : Total(nodeBetweenness, n) > 0

\* C8: for events with distinct endpoints, every node's total with path
\* ends included is at least its total without them.
C8_EndsOnlyAdd ==
    (pc = "done" /\ nb_supplied /\ include_path_ends
        /\ DistinctEndpoints(events)) =>
        LET r == eventBetweenness(events, rev_supplied, events_reversed,
                                  TRUE, FALSE)
        IN  \A n \in Nodes :
                Total(nodeBetweenness, n) >= Total(r.nodeBetweenness, n)

C8_Witness ==
    /\ pc = "done"
    /\ nb_supplied /\ include_path_ends
    /\ Len(events) = 3
    /\ DistinctEndpoints(events)
    /\ LET r == eventBetweenness(events, rev_supplied, events_reversed,
                                 TRUE, FALSE)
       IN  /\ \E n \in Nodes : Total(r.nodeBetweenness, n) > 0
           /\ \E n \in Nodes :
                  Total(nodeBetweenness, n) > Total(r.nodeBetweenness, n)

\* C9: a supplied dictionary ends keyed by exactly the nodes that are an
\* endpoint of some event; without a dictionary no total is computed.
C9_KeysAreEndpoints ==
    /\ ~nb_supplied => nodeBetweenness = EmptyMap
    /\ (pc = "done" /\ nb_supplied) =>
           DOMAIN nodeBetweenness = Endpoints(events)

C9_Witness ==
    /\ pc = "done"
    /\ nb_supplied
    /\ Len(events) = 2
    /\ DOMAIN nodeBetweenness = {"A", "C"}

\* C10: nothing is yielded before the reverse sweep has consumed the whole
\* reverse sequence and pushed one pair per event; at the first yield N pairs
\* have been pushed and one popped.
C10_ReverseSweepFirst ==
    /\ out # <<>> => (rev_it = <<>> /\ pushed = Len(events))
    /\ (pc = "yielded" /\ Len(out) = 1) =>
           (popped = 1 /\ Len(L_diff) = Len(events) - 1)

C10_Witness ==
    /\ pc = "yielded"
    /\ Len(out) = 1
    /\ Len(events) = 2
    /\ pushed = 2
    /\ popped = 1

\* C11: for events with distinct endpoints every emitted value and every
\* node total is a non-negative integer, and so is every leaving count in
\* every state of both sweeps.
C11_NonNegative ==
    DistinctEndpoints(events) =>
        /\ \A k \in 1 .. Len(out) : out[k][2] \in Nat
        /\ \A n \in DOMAIN nodeBetweenness : nodeBetweenness[n] \in Nat
        /\ \A n \in DOMAIN L_count : L_count[n] \in Nat

C11_Witness ==
    /\ pc = "yielded"
    /\ DistinctEndpoints(events)
    /\ Len(events) = 3
    /\ Len(out) = 2
    /\ out[2][2] > 0
    /\ \E n \in DOMAIN L_count : L_count[n] > 0
    /\ \E n \in DOMAIN nodeBetweenness : nodeBetweenness[n] > 0

\* C12 (as claimed): with a supplied reverse sequence that is not the mirror
\* of the events, no fault is raised.
C12_MismatchNeverFaults ==
    (rev_supplied /\ events_reversed # Mirror(events)) => pc # "fault"

\* The reverse sequence is at least as long as the events and names every
\* node the events name.
Covers(rv, ev) == Len(rv) >= Len(ev) /\ Endpoints(ev) \subseteq Endpoints(rv)

\* C12 (amended): with a supplied reverse sequence that is not the mirror, a
\* fault is raised exactly when the reverse sequence is shorter than the
\* events or lacks a node of theirs; otherwise one numeric pair per event is
\* yielded.
C12_FaultsIffNotCovered ==
    (rev_supplied /\ events_reversed # Mirror(events)) =>
        /\ pc = "fault" => ~Covers(events_reversed, events)
        /\ pc = "done" =>
               /\ Covers(events_reversed, events)
               /\ Len(out) = Len(events)
               /\ \A k \in 1 .. Len(out) :
                      out[k][1] = events[k][1] /\ out[k][2] \in Int

C12_Witness ==
    /\ pc = "done"
    /\ rev_supplied
    /\ Len(events) = 2
    /\ Len(events_reversed) = 2
    /\ events_reversed # Mirror(events)
    /\ Len(out) = 2

\* What the m-th event adds to node n's total: the paths arriving at n by
\* the event that go on, and with path ends the paths that start or end at
\* the event.  (The total of j is stored last.)
Contribution(m, n) ==
    LET i == events[m][2]
        j == events[m][3]
        ai == counts[m][1]
        aj == counts[m][2]
        li == counts[m][3]
        lj == counts[m][4]
    IN  IF n = j
        THEN ai * lj + lj + (IF include_path_ends THEN ai + li ELSE 0)
        ELSE IF n = i
        THEN aj * li + li + (IF include_path_ends THEN aj + lj ELSE 0)
        ELSE 0

\* After k results the dictionary holds the contributions of the first k
\* events, keyed by their endpoints.
PartialTotals ==
    (nb_supplied /\ Len(out) > 0) =>
        /\ DOMAIN nodeBetweenness = Endpoints(SubSeq(events, 1, Len(out)))
        /\ \A n \in DOMAIN nodeBetweenness :
               nodeBetweenness[n]
                   = SumSeq([m \in 1 .. Len(out) |-> Contribution(m, n)])

\* A step removes no key and lowers no total.
TotalsOnlyGrow ==
    \A n \in DOMAIN nodeBetweenness :
        /\ n \in DOMAIN nodeBetweenness'
        /\ nodeBetweenness'[n] >= nodeBetweenness[n]

\* C13 (as claimed): after k results the dictionary holds exactly the sum of
\* the contributions of the first k events, keyed by their endpoints, and a
\* later pull never lowers a total.
C13_PartialTotalsKept ==
    /\ []PartialTotals
    /\ [][TotalsOnlyGrow]_vars

\* C13 (amended): the same, for events with distinct endpoints.
C13_PartialTotalsKeptDistinct ==
    /\ [](DistinctEndpoints(events) => PartialTotals)
    /\ [][DistinctEndpoints(events) => TotalsOnlyGrow]_vars

C13_Witness ==
    /\ pc = "yielded"
    /\ nb_supplied
    /\ DistinctEndpoints(events)
    /\ Len(events) = 3
    /\ Len(out) = 2
    /\ Cardinality(DOMAIN nodeBetweenness) = 2
    /\ Cardinality(Endpoints(events)) = 3
    /\ \E n \in DOMAIN nodeBetweenness : nodeBetweenness[n] >= 2

\* What an invocation on ev yields when it runs alone.
Alone(ev) == eventBetweenness(ev, FALSE, <<>>, FALSE, FALSE).out

IsPrefix(p, s) == Len(p) <= Len(s) /\ p = SubSeq(s, 1, Len(p))

\* C14: two invocations pulled in any interleaving each yield exactly the
\* pairs they would yield alone: at every point what each has yielded is a
\* prefix of its results alone, all of them once it is exhausted, and neither
\* faults.
C14_InvocationsIndependent ==
    /\ pc # "fault"
    /\ second.pc # "fault"
    /\ IsPrefix(out, Alone(events))
    /\ IsPrefix(second.out, Alone(second.events))
    /\ pc = "done" => out = Alone(events)
    /\ second.pc = "done" => second.out = Alone(second.events)

\* Both invocations are suspended in the middle of their forward sweeps, with
\* one result yielded each and state in both frames.
C14_Witness ==
    /\ pc = "yielded"
    /\ second.pc = "yielded"
    /\ Len(events) = 2
    /\ Len(second.events) = 2
    /\ Len(out) = 1
    /\ Len(second.out) = 1
    /\ out[1][2] > 0
    /\ second.out[1][2] > 0
    /\ DOMAIN L_count \cap DOMAIN second.L_count # {}

\* The state of the reverse sweep after its first m steps.
ReverseState(m) ==
    ReverseSweep(SubSeq(Reverse(events), 1, m), EmptyMap, <<>>)

\* The forward step of the k-th event pops the pair the reverse sweep pushed
\* for that event and leaves L as the reverse sweep had it after N-k steps.
StackAligned ==
    (pc = "phase2" /\ pc' = "yielded") =>
        LET N == Len(events)
            k == Len(out')
        IN  /\ cur' = events[k]
            /\ L_diff[Len(L_diff)] = ReverseState(N - k + 1).L_diff[N - k + 1]
            /\ L_diff' = ReverseState(N - k).L_diff
            /\ l_i' = Total(ReverseState(N - k).L_count, events[k][2])
            /\ l_j' = Total(ReverseState(N - k).L_count, events[k][3])
            /\ \A n \in Nodes :
                   Total(L_count', n) = Total(ReverseState(N - k).L_count, n)

\* C15: with the reverse sequence the mirror of events and distinct endpoints
\* per event, the pair popped for the k-th event is the pair the reverse sweep
\* pushed for it, and after the subtraction L(node), read as 0 for a node the
\* reverse sweep had not seen, is for every node what the reverse sweep held
\* after N-k steps.
C15_StackAlignment ==
    [][DistinctEndpoints(events) => StackAligned]_vars

C15_Witness ==
    /\ pc = "yielded"
    /\ DistinctEndpoints(events)
    /\ Len(events) = 3
    /\ Len(out) = 1
    /\ Len(L_diff) = 2
    /\ L_diff[2][1] # L_diff[2][2]
    /\ l_i > 0
    /\ l_i # l_j

\* C16: for N events over V distinct nodes (reverse sequence the mirror of
\* events), the correction stack holds N entries when the reverse sweep ends
\* and N-k after the k-th result; from the end of the reverse sweep on the keys
\* of L are exactly the V nodes; the keys of A are always among the endpoints
\* of the events forward-processed so far, so never more than V.
C16_SizesTrackInput ==
    LET N == Len(events)
        V == Endpoints(events)
        k == Len(out)
        swept == \/ pc = "phase1" /\ ReverseExhausted(rev_it)
                 \/ pc \in {"phase2", "yielded", "done"}
    IN  /\ pc # "fault"
        /\ swept => /\ Len(L_diff) = N - k
                    /\ DOMAIN L_count = V
        /\ pc = "phase1" => k = 0
        /\ DOMAIN A_count \subseteq Endpoints(SubSeq(events, 1, k))
        /\ Cardinality(DOMAIN A_count) <= Cardinality(V)

C16_Witness ==
    /\ pc = "yielded"
    /\ Len(events) = 3
    /\ Len(out) = 2
    /\ Len(L_diff) = 1
    /\ Cardinality(DOMAIN L_count) = 3
    /\ Cardinality(DOMAIN A_count) = 2

\* The events ev with times step * (k - 1) in place of their own.
Retimed(ev, step) ==
    TimedEvents([k \in 1 .. Len(ev) |-> <<ev[k][2], ev[k][3]>>], step)

\* The run on the same endpoint pairs with other times.
RetimedRun(step) ==
    eventBetweenness(Retimed(events, step), FALSE, <<>>, nb_supplied,
                     include_path_ends)

\* C17: times are never compared.  The same endpoint pairs with times all
\* distinct, all tied or decreasing yield the same values and the same node
\* totals, every value is paired with the time of its own event, and no
\* input, sorted or not, faults.
C17_TimesNeverCompared ==
    /\ pc # "fault"
    /\ \A k \in 1 .. Len(out) : out[k][1] = events[k][1]
    /\ pc = "done" =>
           \A step \in TimeSteps :
               LET r == RetimedRun(step)
               IN  /\ r.fault = ""
                   /\ Values(r.out) = Values(out)
                   /\ \A k \in 1 .. Len(out) : r.out[k][1] = step * (k - 1)
                   /\ nb_supplied => r.nodeBetweenness = nodeBetweenness

\* An input with decreasing times has been consumed, with paths counted.
C17_Witness ==
    /\ pc = "done"
    /\ nb_supplied
    /\ Len(events) = 3
    /\ events[1][1] > events[2][1]
    /\ events[2][1] > events[3][1]
    /\ out[2][2] > 2
    /\ \E n \in DOMAIN nodeBetweenness : nodeBetweenness[n] > 0

\* Every leaving count is back at 0 and no correction is left.
WalkedBack ==
    /\ L_diff = <<>>
    /\ \A n \in DOMAIN L_count : L_count[n] = 0

\* A step of the forward sweep raises no leaving count and lowers no arrival
\* count.
ForwardMonotone ==
    pc \in {"phase2", "yielded"} =>
        \A n \in Nodes :
            /\ Total(L_count', n) <= Total(L_count, n)
            /\ Total(A_count', n) >= Total(A_count, n)

\* C18: with the mirrored reverse sequence and distinct endpoints per event,
\* once every result is consumed the correction stack is empty and L(node) = 0
\* for every node; during the forward sweep L(node) never increases and
\* A(node) never decreases.
C18_WalkBack ==
    /\ []((DistinctEndpoints(events) /\ pc = "done") => WalkedBack)
    /\ [][DistinctEndpoints(events) => ForwardMonotone]_vars

C18_Witness ==
    /\ pc = "done"
    /\ DistinctEndpoints(events)
    /\ Len(events) = 3
    /\ WalkedBack
    /\ Cardinality(DOMAIN L_count) = 3
    /\ counts[1][3] + counts[1][4] > 1
    /\ \E n \in DOMAIN A_count : A_count[n] > 1

\* The k-th event is the first self-loop of the input in forward order.
FirstSelfLoop(k) ==
    /\ events[k][2] = events[k][3]
    /\ \A m \in 1 .. k - 1 : events[m][2] # events[m][3]

\* C19: no input with self-loops faults; the forward step of the first
\* self-loop (t, i, i) leaves L(i) = -1 and the value emitted for it is -2,
\* whatever the other events are.
C19_FirstSelfLoopMinusTwo ==
    /\ pc # "fault"
    /\ \A k \in 1 .. Len(out) :
           FirstSelfLoop(k) =>
               /\ out[k][2] = -2
               /\ counts[k][3] = -1
               /\ counts[k][4] = -1
               /\ (pc = "yielded" /\ k = Len(out)) =>
                      L_count[events[k][2]] = -1

C19_Witness ==
    /\ pc = "yielded"
    /\ Len(events) = 3
    /\ Len(out) = 2
    /\ FirstSelfLoop(2)
    /\ events[1][2] = events[2][2]
    /\ events[3][2] = events[2][2]
    /\ a_i > 0
    /\ L_count[events[2][2]] = -1
    /\ out[2][2] = -2

\* The run on the reversed sequence of events.
ReversedRun ==
    eventBetweenness(Reverse(events), FALSE, <<>>, FALSE, FALSE)

\* C20: for events with distinct endpoints per event, the value of the k-th
\* event equals the value the run on the reversed sequence emits for its
\* (N+1-k)-th event, and over one run the sum of a_i + a_j equals the sum of
\* l_i + l_j.
C20_ReversalSymmetry ==
    (pc = "done" /\ DistinctEndpoints(events)) =>
        LET N == Len(events)
            r == ReversedRun
        IN  /\ r.fault = ""
            /\ Len(r.out) = N
            /\ \A k \in 1 .. N : out[k][2] = r.out[N + 1 - k][2]
            /\ SumSeq([k \in 1 .. N |-> counts[k][1] + counts[k][2]])
                   = SumSeq([k \in 1 .. N |-> counts[k][3] + counts[k][4]])

\* A consumed run whose values are not symmetric in themselves, so that the
\* reversed run emits them in another order.
C20_Witness ==
    /\ pc = "done"
    /\ DistinctEndpoints(events)
    /\ Len(events) = 3
    /\ out[1][2] # out[3][2]
    /\ out[1][2] > 0
    /\ counts[2][1] + counts[2][2] # counts[2][3] + counts[2][4]

====
